---- MODULE Spec2Model ----
(***************************************************************************)
(* scripts/run_system.py: the heartbeat reporter.                          *)
(*                                                                         *)
(* asyncio.run(main()) runs one task.  main() logs the startup line and    *)
(* awaits health_check(), which loops forever: log "System healthy at      *)
(* <datetime.now().isoformat()>", then await asyncio.sleep(30).  main()    *)
(* catches KeyboardInterrupt (logs the shutdown line and returns) and      *)
(* Exception (logs "System error: <e>" and calls sys.exit(1)).             *)
(*                                                                         *)
(* The position of the task is pc, one value per statement boundary at     *)
(* which an interrupt can be observed.  SIGINT reaches the program the way *)
(* the interpreter running it delivers it, sigintMode:                     *)
(*   "raise"   signal.default_int_handler raises KeyboardInterrupt at the  *)
(*             instruction the main thread is executing (asyncio.run of    *)
(*             Python 3.8 to 3.10);                                        *)
(*   "cancel"  asyncio.Runner's handler calls main_task.cancel(), which    *)
(*             throws CancelledError into the coroutine at its next or     *)
(*             current suspension (Python 3.11 and later).                 *)
(* CancelledError derives from BaseException, so neither except clause of  *)
(* main() catches it.                                                      *)
(*                                                                         *)
(* Time: mono is the event loop's monotonic clock in seconds; it advances  *)
(* only while the task is suspended in asyncio.sleep, and the timer fires  *)
(* when it is due.  datetime.now() is the naive local wall clock: mono     *)
(* plus the local UTC offset, which daylight saving switches by one hour.  *)
(***************************************************************************)
EXTENDS Integers, Sequences, FiniteSets, TLC

VARIABLES
    pc,          \* position of the main task
    log,         \* the records the logging sink has received, in order
    mono,        \* monotonic clock (loop.time()), seconds since start
    dst,         \* TRUE while local time is daylight saving time
    deadline,    \* when the pending asyncio.sleep timer is due
    captured,    \* datetime.now() as read for the heartbeat being formatted
    exc,         \* the Exception raised in the loop body, or NoExc
    exit,        \* how the process ended, or "running"
    sigintMode,  \* how this interpreter delivers SIGINT
    signalled,   \* a SIGINT has been delivered
    mustCancel,  \* Task._must_cancel: cancellation requested while running
    sigPc,       \* history: pc at the moment SIGINT was delivered
    sigLen,      \* history: Len(log) at the moment SIGINT was delivered
    wakes,       \* history: number of asyncio.sleep(30) calls that completed
    beats        \* history: per heartbeat record, mono and wakes at emission

vars == <<pc, log, mono, dst, deadline, captured, exc, exit, sigintMode,
          signalled, mustCancel, sigPc, sigLen, wakes, beats>>

\* asyncio.sleep(30)
INTERVAL == 30

\* The model follows a run up to this many heartbeat records.
MaxBeats == 3

\* str(e) of the exceptions injected into the loop body.
Details == {"disk full", "clock failure"}

NoExc == "none"

\* One hour: what the end of daylight saving time takes off naive local time.
DstShift == 60 * 60

SigintModes == {"raise", "cancel"}

\* Statements of main() inside the try block (all of them in health_check)
\* at which the task is running, not suspended.
TryPcs == {"capture", "write", "await"}

\* Statements of main() outside the try block and its KeyboardInterrupt clause.
OutsidePcs == {"startup", "enter", "except", "sysexit"}

\* The loop body of health_check.
LoopPcs == TryPcs \cup {"sleeping"}

\* datetime.now(): naive local time, in seconds.
Now == mono + (IF dst THEN DstShift ELSE 0)

StartupMsg == "Starting Trading System..."

ShutdownMsg == "Shutting down Trading System..."

\* The message of a heartbeat up to its timestamp.
HeartbeatMsg == "System healthy at "

\* The message of an error up to str(e).
ErrorMsg == "System error: "

StartupLine == [level |-> "INFO", msg |-> StartupMsg]

ShutdownLine == [level |-> "INFO", msg |-> ShutdownMsg]

HeartbeatLine(t) == [level |-> "INFO", msg |-> HeartbeatMsg, ts |-> t]

ErrorLine(d) == [level |-> "ERROR", msg |-> ErrorMsg, detail |-> d]

IsStartup(r) == r.msg = StartupMsg

IsShutdown(r) == r.msg = ShutdownMsg

IsHeartbeat(r) == r.msg = HeartbeatMsg

IsError(r) == r.msg = ErrorMsg

\* Where the records with message m stand in the log.
Positions(m) == {i \in 1..Len(log) : log[i].msg = m}

Count(m) == Cardinality(Positions(m))

NBeats == Count(HeartbeatMsg)

\* The process exit status: 0 when asyncio.run returns, 1 for sys.exit(1),
\* death by SIGINT (128 + 2) for a KeyboardInterrupt nobody caught.
ExitStatus ==
    CASE exit = "returned" -> 0
      [] exit = "sys.exit(1)" -> 1
      [] exit = "KeyboardInterrupt" -> 128 + 2
      [] OTHER -> 0 - 1

Init ==
    /\ pc = "created"
    /\ log = << >>
    /\ mono = 0
    /\ dst \in BOOLEAN
    /\ deadline = 0
    /\ captured = 0
    /\ exc = NoExc
    /\ exit = "running"
    /\ sigintMode \in SigintModes
    /\ signalled = FALSE
    /\ mustCancel = FALSE
    /\ sigPc = "none"
    /\ sigLen = 0
    /\ wakes = 0
    /\ beats = << >>

\* asyncio.run: the event loop runs the first step of the task.
Start ==
    /\ pc = "created"
    /\ pc' = "startup"
    /\ UNCHANGED <<log, mono, dst, deadline, captured, exc, exit, sigintMode,
                   signalled, mustCancel, sigPc, sigLen, wakes, beats>>

\* LogStartup without its logger.info call.
LogStartupMissing ==
    /\ pc = "startup"
    /\ pc' = "enter"
    /\ UNCHANGED <<log, mono, dst, deadline, captured, exc, exit, sigintMode,
                   signalled, mustCancel, sigPc, sigLen, wakes, beats>>

\* logger.info("Starting Trading System...")
LogStartup ==
    /\ pc = "startup"
    /\ log' = Append(log, StartupLine)
    /\ pc' = "enter"
    /\ UNCHANGED <<mono, dst, deadline, captured, exc, exit, sigintMode,
                   signalled, mustCancel, sigPc, sigLen, wakes, beats>>

\* try: await health_check() -- enters the try block and the while loop.
EnterTry ==
    /\ pc = "enter"
    /\ pc' = "capture"
    /\ UNCHANGED <<log, mono, dst, deadline, captured, exc, exit, sigintMode,
                   signalled, mustCancel, sigPc, sigLen, wakes, beats>>

\* f"System healthy at {datetime.now().isoformat()}": the argument is
\* evaluated before logger.info is called.
Capture ==
    /\ pc = "capture"
    /\ NBeats < MaxBeats
    /\ captured' = Now
    /\ pc' = "write"
    /\ UNCHANGED <<log, mono, dst, deadline, exc, exit, sigintMode,
                   signalled, mustCancel, sigPc, sigLen, wakes, beats>>

\* logger.info(...): the handler writes the whole record in one call.
Write ==
    /\ pc = "write"
    /\ log' = Append(log, HeartbeatLine(captured))
    /\ beats' = Append(beats, [at |-> mono, wakes |-> wakes])
    /\ pc' = "await"
    /\ UNCHANGED <<mono, dst, deadline, captured, exc, exit, sigintMode,
                   signalled, mustCancel, sigPc, sigLen, wakes>>

\* AwaitSleep with the sleep left out: the loop repeats at once.
AwaitNoSleep ==
    /\ pc = "await"
    /\ ~mustCancel
    /\ pc' = "capture"
    /\ UNCHANGED <<log, mono, dst, deadline, captured, exc, exit, sigintMode,
                   signalled, mustCancel, sigPc, sigLen, wakes, beats>>

\* await asyncio.sleep(30): the task suspends on a timer of INTERVAL seconds.
AwaitSleep ==
    /\ pc = "await"
    /\ ~mustCancel
    /\ deadline' = mono + INTERVAL
    /\ pc' = "sleeping"
    /\ UNCHANGED <<log, mono, dst, captured, exc, exit, sigintMode,
                   signalled, mustCancel, sigPc, sigLen, wakes, beats>>

\* await asyncio.sleep(30) with a cancellation pending: Task.__step cancels
\* the future the coroutine yields, CancelledError is thrown in at the await,
\* passes both except clauses of main(), and asyncio.run raises
\* KeyboardInterrupt.
AwaitCancelled ==
    /\ pc = "await"
    /\ mustCancel
    /\ pc' = "done"
    /\ exit' = "KeyboardInterrupt"
    /\ UNCHANGED <<log, mono, dst, deadline, captured, exc, sigintMode,
                   signalled, mustCancel, sigPc, sigLen, wakes, beats>>

\* A second of the suspension passes.
Tick ==
    /\ pc = "sleeping"
    /\ mono < deadline
    /\ mono' = mono + 1
    /\ UNCHANGED <<pc, log, dst, deadline, captured, exc, exit, sigintMode,
                   signalled, mustCancel, sigPc, sigLen, wakes, beats>>

\* Wake with the loop ending after the sleep instead of repeating:
\* health_check and main return.
WakeReturns ==
    /\ pc = "sleeping"
    /\ mono >= deadline
    /\ wakes' = wakes + 1
    /\ pc' = "done"
    /\ exit' = "returned"
    /\ UNCHANGED <<log, mono, dst, deadline, captured, exc, sigintMode,
                   signalled, mustCancel, sigPc, sigLen, beats>>

\* The timer fires: asyncio.sleep returns and the while loop repeats.
Wake ==
    /\ pc = "sleeping"
    /\ mono >= deadline
    /\ wakes' = wakes + 1
    /\ pc' = "capture"
    /\ UNCHANGED <<log, mono, dst, deadline, captured, exc, exit, sigintMode,
                   signalled, mustCancel, sigPc, sigLen, beats>>

\* Daylight saving time starts or ends: naive local time jumps by an hour.
DstSwitch ==
    /\ pc # "done"
    /\ dst' = ~dst
    /\ UNCHANGED <<pc, log, mono, deadline, captured, exc, exit, sigintMode,
                   signalled, mustCancel, sigPc, sigLen, wakes, beats>>

\* An Exception is raised in the loop body (by datetime.now(), logger.info
\* or asyncio.sleep) and reaches "except Exception as e".
Fail ==
    /\ pc \in LoopPcs
    /\ \E d \in Details : exc' = d
    /\ pc' = "except"
    /\ UNCHANGED <<log, mono, dst, deadline, captured, exit, sigintMode,
                   signalled, mustCancel, sigPc, sigLen, wakes, beats>>

\* LogError with the error recovered: the loop is entered again.
LogErrorRetry ==
    /\ pc = "except"
    /\ log' = Append(log, ErrorLine(exc))
    /\ pc' = "capture"
    /\ UNCHANGED <<mono, dst, deadline, captured, exc, exit, sigintMode,
                   signalled, mustCancel, sigPc, sigLen, wakes, beats>>

\* logger.error(f"System error: {e}")
LogError ==
    /\ pc = "except"
    /\ log' = Append(log, ErrorLine(exc))
    /\ pc' = "sysexit"
    /\ UNCHANGED <<mono, dst, deadline, captured, exc, exit, sigintMode,
                   signalled, mustCancel, sigPc, sigLen, wakes, beats>>

\* SysExit with the sys.exit(1) call left out: main() returns.
SysExitReturns ==
    /\ pc = "sysexit"
    /\ exit' = "returned"
    /\ pc' = "done"
    /\ UNCHANGED <<log, mono, dst, deadline, captured, exc, sigintMode,
                   signalled, mustCancel, sigPc, sigLen, wakes, beats>>

\* sys.exit(1): SystemExit leaves the task and asyncio.run.
SysExit ==
    /\ pc = "sysexit"
    /\ exit' = "sys.exit(1)"
    /\ pc' = "done"
    /\ UNCHANGED <<log, mono, dst, deadline, captured, exc, sigintMode,
                   signalled, mustCancel, sigPc, sigLen, wakes, beats>>

\* LogShutdown falling through to the sys.exit(1) of the next clause.
LogShutdownFallsThrough ==
    /\ pc = "shutdown"
    /\ log' = Append(log, ShutdownLine)
    /\ pc' = "sysexit"
    /\ UNCHANGED <<mono, dst, deadline, captured, exc, exit, sigintMode,
                   signalled, mustCancel, sigPc, sigLen, wakes, beats>>

\* except KeyboardInterrupt: logger.info("Shutting down Trading System...");
\* main() returns and asyncio.run returns.
LogShutdown ==
    /\ pc = "shutdown"
    /\ log' = Append(log, ShutdownLine)
    /\ pc' = "done"
    /\ exit' = "returned"
    /\ UNCHANGED <<mono, dst, deadline, captured, exc, sigintMode,
                   signalled, mustCancel, sigPc, sigLen, wakes, beats>>

\* What every delivery of SIGINT records.
Delivered ==
    /\ ~signalled
    /\ signalled' = TRUE
    /\ sigPc' = pc
    /\ sigLen' = Len(log)

\* SIGINT before the first step of the task: the coroutine never runs (the
\* task is cancelled unstarted) and asyncio.run ends with KeyboardInterrupt.
SigintBeforeStart ==
    /\ pc = "created"
    /\ Delivered
    /\ pc' = "done"
    /\ exit' = "KeyboardInterrupt"
    /\ UNCHANGED <<log, mono, dst, deadline, captured, exc, sigintMode,
                   mustCancel, wakes, beats>>

\* SIGINT while the coroutine is executing inside the try block, delivered as
\* KeyboardInterrupt: "except KeyboardInterrupt" catches it.
SigintRaiseInTry ==
    /\ sigintMode = "raise"
    /\ pc \in TryPcs
    /\ Delivered
    /\ pc' = "shutdown"
    /\ UNCHANGED <<log, mono, dst, deadline, captured, exc, exit, sigintMode,
                   mustCancel, wakes, beats>>

\* SIGINT while the coroutine is executing outside the try block or inside
\* "except Exception", delivered as KeyboardInterrupt: nothing catches it.
SigintRaiseOutside ==
    /\ sigintMode = "raise"
    /\ pc \in OutsidePcs
    /\ Delivered
    /\ pc' = "done"
    /\ exit' = "KeyboardInterrupt"
    /\ UNCHANGED <<log, mono, dst, deadline, captured, exc, sigintMode,
                   mustCancel, wakes, beats>>

\* SIGINT while the coroutine is executing, delivered as main_task.cancel():
\* the task has no future to cancel yet, so it only sets _must_cancel and
\* the coroutine runs on to its next await.
SigintCancelRunning ==
    /\ sigintMode = "cancel"
    /\ pc \in TryPcs \cup OutsidePcs
    /\ Delivered
    /\ mustCancel' = TRUE
    /\ UNCHANGED <<pc, log, mono, dst, deadline, captured, exc, exit,
                   sigintMode, wakes, beats>>

\* SIGINT while the task is suspended in asyncio.sleep.  "raise": the
\* KeyboardInterrupt is raised in the event loop, and asyncio.run cancels
\* the task on its way out.  "cancel": the sleep future is cancelled.  Either
\* way CancelledError is thrown in at the await, no except clause of main()
\* catches it, and the process ends with KeyboardInterrupt.
SigintWhileSleeping ==
    /\ pc = "sleeping"
    /\ Delivered
    /\ pc' = "done"
    /\ exit' = "KeyboardInterrupt"
    /\ UNCHANGED <<log, mono, dst, deadline, captured, exc, sigintMode,
                   mustCancel, wakes, beats>>

\* The steps of the program itself.
Step ==
    \/ Start
    \/ LogStartup
    \/ EnterTry
    \/ Capture
    \/ Write
    \/ AwaitSleep
    \/ AwaitCancelled
    \/ Wake
    \/ LogError
    \/ SysExit
    \/ LogShutdown

Next ==
    \/ Start
    \/ LogStartup
    \/ EnterTry
    \/ Capture
    \/ Write
    \/ AwaitSleep
    \/ AwaitCancelled
    \/ Tick
    \/ Wake
    \/ DstSwitch
    \/ Fail
    \/ LogError
    \/ SysExit
    \/ LogShutdown
    \/ SigintBeforeStart
    \/ SigintRaiseInTry
    \/ SigintRaiseOutside
    \/ SigintCancelRunning
    \/ SigintWhileSleeping

Spec == Init /\ [][Next]_vars

\* The event loop runs a runnable task and time passes.
FairSpec == Spec /\ WF_vars(Step) /\ WF_vars(Tick)

(***************************************************************************)
(* The reporter's two states, as the specification names them.             *)
(***************************************************************************)

\* RUNNING from process start until the loop of health_check has been left.
ReporterState ==
    IF pc \in {"created", "startup", "enter"} \cup LoopPcs
    THEN "RUNNING"
    ELSE "STOPPED"

\* No SIGINT has been delivered and no Exception raised.
NoStop == ~signalled /\ exc = NoExc

\* The run was interrupted before logger.info of line 27 could run.
KilledBeforeStartupLine ==
    \/ sigPc = "created"
    \/ sigPc = "startup" /\ sigintMode = "raise"

(***************************************************************************)
(* Properties                                                              *)
(***************************************************************************)

\* C1: a SIGINT delivered at any point of the loop (before a heartbeat is
\* written, between a heartbeat and its sleep, during the sleep) ends the
\* process with exit status 0, exactly one shutdown line and no heartbeat
\* line after the signal.
C1_CleanShutdown ==
    (pc = "done" /\ signalled /\ sigPc \in LoopPcs /\ exc = NoExc)
        => /\ ExitStatus = 0
           /\ Count(ShutdownMsg) = 1
           /\ \A i \in Positions(HeartbeatMsg) : i <= sigLen

\* C2: an Exception raised in the loop body, with no SIGINT delivered, ends
\* the process with exit status 1 and exactly one "System error" line, which
\* carries str(e).
C2_FailureExitsOne ==
    (pc = "done" /\ exc # NoExc /\ ~signalled)
        => /\ ExitStatus = 1
           /\ Count(ErrorMsg) = 1
           /\ \A i \in Positions(ErrorMsg) : log[i].detail = exc

C2_Witness ==
    /\ pc = "done"
    /\ exc # NoExc
    /\ ~signalled
    /\ NBeats >= 1
    /\ IsError(log[Len(log)])

\* C3: a SIGINT delivered after the startup line and before any heartbeat
\* line leaves the log <<startup, shutdown>> and exit status 0.
C3_EarlySignal ==
    (/\ pc = "done"
     /\ signalled
     /\ sigLen = 1
     /\ sigPc \in {"enter", "capture", "write"}
     /\ exc = NoExc)
        => /\ Len(log) = 2
           /\ IsStartup(log[1])
           /\ IsShutdown(log[2])
           /\ NBeats = 0
           /\ ExitStatus = 0

\* C4: the reporter starts RUNNING; it leaves RUNNING only for STOPPED and
\* only once a SIGINT has been delivered or an Exception raised; from STOPPED
\* it never returns and no heartbeat line is emitted.
C4_RunningThenStopped ==
    /\ ReporterState = "RUNNING"
    /\ [][/\ ReporterState = "STOPPED"
                => ReporterState' = "STOPPED" /\ NBeats' = NBeats
          /\ (ReporterState = "RUNNING" /\ ReporterState' = "STOPPED")
                => (signalled' \/ exc' # NoExc)]_vars

C4_Witness ==
    /\ pc = "done"
    /\ ReporterState = "STOPPED"
    /\ NBeats >= 2

\* C5: as long as no SIGINT is delivered and no Exception raised the reporter
\* is RUNNING, and (the event loop being fair to the task and to time) every
\* heartbeat count below the horizon is followed by the next one.
C5_HeartbeatsForever ==
    /\ [](NoStop => ReporterState = "RUNNING")
    /\ \A k \in 0..(MaxBeats - 1) :
          (NoStop /\ NBeats = k) ~> (NBeats = k + 1 \/ ~NoStop)

C5_Witness ==
    /\ NoStop
    /\ NBeats = MaxBeats
    /\ pc = "sleeping"

\* C6: the k-th heartbeat is emitted after exactly k-1 completed sleeps, at
\* INTERVAL*(k-1) seconds; heartbeat lines are adjacent in the log; every one
\* carries a timestamp and "healthy"; an undisturbed run has emitted at least
\* mono \div INTERVAL heartbeats, so at least 2 once 65 seconds have passed.
C6_Cadence ==
    /\ Len(beats) = NBeats
    /\ \A k \in 1..Len(beats) :
          /\ beats[k].wakes = k - 1
          /\ beats[k].at = INTERVAL * (k - 1)
    /\ \A i, j \in Positions(HeartbeatMsg) :
          i < j => \A m \in i..j : IsHeartbeat(log[m])
    /\ \A i \in Positions(HeartbeatMsg) :
          /\ DOMAIN log[i] = {"level", "msg", "ts"}
          /\ log[i].level = "INFO"
          /\ log[i].ts \in Nat
    /\ NoStop => NBeats >= mono \div INTERVAL
    /\ (NoStop /\ mono >= 65) => NBeats >= 2

C6_Witness ==
    /\ NoStop
    /\ mono >= 65
    /\ NBeats = 3

\* C7: the timestamp of a heartbeat line is never smaller than the timestamp
\* of an earlier heartbeat line.
C7_MonotonicTimestamps ==
    \A i, j \in Positions(HeartbeatMsg) : i < j => log[i].ts <= log[j].ts

\* C8: a SIGINT that ends the loop does so only at the suspension point (the
\* task sleeping, or arriving at the await with the cancellation pending),
\* never between capturing the time and writing the record.
C8_CancelOnlySuspended ==
    [][(/\ pc \in LoopPcs
        /\ ReporterState' = "STOPPED"
        /\ signalled'
        /\ exc' = NoExc)
            => (pc = "sleeping" \/ (pc = "await" /\ mustCancel))]_vars

\* C9 as written: every finished run has emitted the startup line exactly
\* once.
C9_StartupInEveryRun ==
    pc = "done" => Count(StartupMsg) = 1

\* C9: the startup line is emitted at most once and is the first line of any
\* log; it has been emitted exactly once as soon as line 27 has run, which
\* only an interrupt before that line prevents; the first heartbeat line
\* follows it directly, before any sleep has completed.
C9_StartupFirst ==
    /\ Count(StartupMsg) =
          IF pc \in {"created", "startup"} \/ KilledBeforeStartupLine
          THEN 0 ELSE 1
    /\ log # << >> => IsStartup(log[1])
    /\ NBeats >= 1 => (IsHeartbeat(log[2]) /\ beats[1].wakes = 0)

C9_Witness ==
    /\ pc = "done"
    /\ NBeats >= 2
    /\ Count(StartupMsg) = 1
    /\ ~IsHeartbeat(log[Len(log)])

\* C10: the shutdown line and the error line exclude each other, each occurs
\* at most once and then as the last line; sys.exit(1) is called only after
\* the error line, never after the shutdown line.
C10_OneTerminalLine ==
    /\ Count(ShutdownMsg) + Count(ErrorMsg) <= 1
    /\ \A i \in Positions(ShutdownMsg) \cup Positions(ErrorMsg) : i = Len(log)
    /\ (pc = "sysexit" \/ exit = "sys.exit(1)")
          => (Count(ErrorMsg) = 1 /\ Count(ShutdownMsg) = 0)
    /\ exit = "returned" => Count(ShutdownMsg) = 1

C10_Witness ==
    /\ exit = "sys.exit(1)"
    /\ Count(ErrorMsg) = 1
    /\ NBeats >= 1

====
